---- MODULE Spec2Model ----
(***************************************************************************)
(* Model of the Braid mock server (gihan9a/braid-mock).                    *)
(*                                                                         *)
(* Threads:                                                                *)
(*   - the watcher goroutine (watchFiles + notifySubscribers),             *)
(*   - one goroutine per HTTP connection (handleBraidRequest),             *)
(*   - one helper goroutine per subscription (RemoveSubscription on        *)
(*     ctx.Done()).                                                        *)
(* Shared state: s.subscriptions, s.versions, s.hashes guarded by s.mu.    *)
(* Byte buffers are sequences of byte values; versions are the strings     *)
(* produced by calculateHash.                                              *)
(***************************************************************************)
EXTENDS Integers, Sequences, FiniteSets, TLC

(***************************************************************************)
(* Bounds of the model.                                                    *)
(***************************************************************************)
NumConns == 2
MaxEvents == 2
MaxClock == 2
MaxDisconnects == 1

(***************************************************************************)
(* Byte buffers used as file contents.                                     *)
(***************************************************************************)
\* {"a":1}
BodyA1 == <<123, 34, 97, 34, 58, 49, 125>>
\* {"a": 1}   (same JSON document as BodyA1, different bytes)
BodyA1s == <<123, 34, 97, 34, 58, 32, 49, 125>>
\* {"a":2}
BodyA2 == <<123, 34, 97, 34, 58, 50, 125>>
\* {"b":3}
BodyB3 == <<123, 34, 98, 34, 58, 51, 125>>
\* x          (not JSON)
BodyBad == <<120>>
\* empty file
BodyEmpty == <<>>

Bodies == {BodyA1, BodyA1s, BodyA2, BodyB3, BodyBad, BodyEmpty}

(***************************************************************************)
(* calculateHash: CRC-32 (IEEE) of the bytes, printed with "\"%08x\"".     *)
(* A 32-bit value is kept as a pair <<high 16 bits, low 16 bits>>.         *)
(***************************************************************************)
RECURSIVE Xor(_, _)
Xor(a, b) ==
    IF a = 0 THEN b
    ELSE IF b = 0 THEN a
    ELSE ((((a % 2) + (b % 2)) % 2) + (2 * Xor(a \div 2, b \div 2)))

\* reflected IEEE polynomial 0xEDB88320
PolyHi == 60856
PolyLo == 33568

CrcShift(c) ==
    LET hi == c[1] \div 2
        lo == (c[2] \div 2) + ((c[1] % 2) * 32768)
    IN IF c[2] % 2 = 1 THEN <<Xor(hi, PolyHi), Xor(lo, PolyLo)>> ELSE <<hi, lo>>

RECURSIVE CrcBits(_, _)
CrcBits(c, n) ==
    IF n = 0 THEN c
    ELSE LET next == CrcShift(c)
         IN IF next[1] >= 0 THEN CrcBits(next, n - 1) ELSE next

RECURSIVE CrcUpdate(_, _)
CrcUpdate(c, bytes) ==
    IF bytes = <<>> THEN c
    ELSE LET next == CrcBits(<<c[1], Xor(c[2], Head(bytes))>>, 8)
         IN IF next[1] >= 0 THEN CrcUpdate(next, Tail(bytes)) ELSE next

Checksum(bytes) ==
    LET c == CrcUpdate(<<65535, 65535>>, bytes)
    IN <<65535 - c[1], 65535 - c[2]>>

HexDigits == <<"0", "1", "2", "3", "4", "5", "6", "7",
               "8", "9", "a", "b", "c", "d", "e", "f">>

Hex4(x) ==
    HexDigits[(x \div 4096) + 1] \o HexDigits[((x \div 256) % 16) + 1]
        \o HexDigits[((x \div 16) % 16) + 1] \o HexDigits[(x % 16) + 1]

HashBytes(bytes) ==
    LET c == Checksum(bytes) IN "\"" \o Hex4(c[1]) \o Hex4(c[2]) \o "\""

HashTable == [b \in Bodies |-> HashBytes(b)]

calculateHash(data) == HashTable[data]


(***************************************************************************)
(* jsondiff.CompareJSON on the documents of Bodies.  The documents are     *)
(* flat objects with one-letter keys and one-digit values; any other       *)
(* buffer of Bodies is not JSON.  A parsed object is a function from key   *)
(* byte to value byte.                                                     *)
(***************************************************************************)
IsSpace(c) == c \in {9, 10, 13, 32}

RECURSIVE StripSpace(_)
StripSpace(s) ==
    IF s = <<>> THEN <<>>
    ELSE IF IsSpace(Head(s)) THEN StripSpace(Tail(s))
    ELSE <<Head(s)>> \o StripSpace(Tail(s))

\* the five bytes "k":d starting at position i
IsMember(t, i) ==
    /\ t[i] = 34 /\ t[i + 1] \in 97..122 /\ t[i + 2] = 34
    /\ t[i + 3] = 58 /\ t[i + 4] \in 48..57

ValidJSON(s) ==
    LET t == StripSpace(s)
        n == Len(t)
    IN /\ n >= 2 /\ t[1] = 123 /\ t[n] = 125
       /\ \/ n = 2
          \/ /\ (n - 2) % 6 = 5
             /\ \A j \in 0..((n - 3) \div 6) :
                  /\ IsMember(t, 2 + (6 * j))
                  /\ (j > 0 => t[1 + (6 * j)] = 44)

Unmarshal(s) ==
    LET t == StripSpace(s)
        m == (Len(t) + 3) \div 6
        keys == {t[3 + (6 * j)] : j \in 0..(m - 1)}
        last(k) == CHOOSE j \in 0..(m - 1) :
                      /\ t[3 + (6 * j)] = k
                      /\ \A i \in 0..(m - 1) : t[3 + (6 * i)] = k => i <= j
    IN [k \in keys |-> t[6 + (6 * last(k))]]

\* a marshaller that prints every value as null
jsonMarshalNull(v) == <<110, 117, 108, 108>>

\* an absent Value (nil) is the empty sequence; json.Marshal prints it as null
NilValue == <<>>
jsonMarshal(v) == IF v = NilValue THEN <<110, 117, 108, 108>> ELSE v

RECURSIVE compareObjects(_, _, _)
compareObjects(keys, src, tgt) ==
    IF keys = {} THEN <<>>
    ELSE LET k == CHOOSE x \in keys : \A y \in keys : x <= y
             inOld == k \in DOMAIN src
             inNew == k \in DOMAIN tgt
             op == IF inOld /\ inNew
                   THEN IF src[k] = tgt[k] THEN <<>>
                        ELSE <<[Type |-> "replace", Path |-> <<47, k>>, Value |-> <<tgt[k]>>]>>
                   ELSE IF inOld
                   THEN <<[Type |-> "remove", Path |-> <<47, k>>, Value |-> NilValue]>>
                   ELSE <<[Type |-> "add", Path |-> <<47, k>>, Value |-> <<tgt[k]>>]>>
         IN op \o compareObjects(keys \ {k}, src, tgt)

CompareJSON(source, target) ==
    IF ~ValidJSON(source) \/ ~ValidJSON(target)
    THEN [err |-> TRUE, ops |-> <<>>]
    ELSE LET src == Unmarshal(source)
             tgt == Unmarshal(target)
         IN [err |-> FALSE,
             ops |-> compareObjects(DOMAIN src \cup DOMAIN tgt, src, tgt)]

DiffTable == [p \in Bodies \X Bodies |-> CompareJSON(p[1], p[2])]


(***************************************************************************)
(* State.                                                                  *)
(***************************************************************************)
Conns == 1..NumConns
Clock == 1..MaxClock

\* file paths relative to the root directory, without the .braid extension
Paths == {"r1", "r2", "r3"}

getResourceIDFromPath(rel) == "/" \o rel

Resources == {getResourceIDFromPath(p) : p \in Paths}

getPathFromResourceID(resourceID) ==
    CHOOSE p \in Paths : getResourceIDFromPath(p) = resourceID

VARIABLES
    files,          \* the file store: path -> bytes, for the files that exist
    proxyURL,       \* TRUE when a proxy target is configured
    writable,       \* the contents the files are rewritten with
    leavers,        \* how many clients may go away
    events,         \* s.watcher.Events, in delivery order
    evCount,        \* number of events the watcher has delivered so far
    subscriptions,  \* s.subscriptions: resourceID -> (subID -> Subscription)
    versions,       \* s.versions
    hashes,         \* s.hashes
    mu,             \* s.mu: [w |-> thread holding Lock, r |-> number of RLocks]
    hpc,            \* handleBraidRequest: position of each connection's handler
    hreq,           \* handleBraidRequest: locals of each handler
    status,         \* response status of each connection
    broken,         \* TRUE once the client has gone (r.Context().Done() closed)
    gpc,            \* position of the goroutine that waits on ctx.Done()
    stream,         \* per connection, the frames written to its ResponseWriter
    dpc,            \* watchFiles / notifySubscribers: position
    dev,            \* watchFiles: the event being processed
    ddata,          \* watchFiles: data (bytes read from the file)
    dsubs,          \* notifySubscribers: subs ("nil", "live" or "orphan")
    dvisited,       \* range subs: keys already produced
    dfresh,         \* range subs: entries created since the range started
    dsubID,         \* range subs: current key
    dsub,           \* range subs: current value (a copy of the Subscription)
    dsnap,          \* subscribers registered when subs was read under RLock
    dseen,          \* subscribers produced by the range so far
    dfailed,        \* subscribers whose write failed in the current pass
    clock,          \* the last reading of the clock (0 before the first)
    crashed         \* the runtime stopped the process (fatal error)

envVars == <<files, proxyURL, writable, leavers, events, evCount, clock>>
regVars == <<subscriptions, versions, hashes>>
connVars == <<hpc, hreq, status, broken, gpc>>
dispVars == <<dpc, dev, ddata, dsubs, dvisited, dfresh, dsubID, dsub,
              dsnap, dseen, dfailed>>
vars == <<envVars, regVars, mu, connVars, stream, dispVars, crashed>>

NoThread == <<"-", 0>>
Disp == <<"d", 0>>
Handler(h) == <<"h", h>>
Remover(h) == <<"g", h>>

NoEvent == [rel |-> "", ext |-> "", op |-> "", n |-> 0]
NoSub == [ID |-> "", W |-> 0, LastResource |-> <<>>, LastHash |-> ""]
NoReq == [resourceID |-> "", data |-> <<>>, hash |-> "", subID |-> ""]

\* sync.RWMutex
CanLock == mu.w = NoThread /\ mu.r = 0
CanRLock == mu.w = NoThread
Locked(t) == [w |-> t, r |-> 0]
Unlocked == [w |-> NoThread, r |-> 0]
RLocked(m) == [m EXCEPT !.r = @ + 1]
\* an RUnlock that is left out
RUnlockMissing(m) == m
RUnlock(m) == [m EXCEPT !.r = @ - 1]

EmptyMap == [x \in {} |-> x]

\* the bucket of a resource; a missing key reads as the nil (empty) map
Bucket(resourceID) ==
    IF resourceID \in DOMAIN subscriptions THEN subscriptions[resourceID]
    ELSE EmptyMap

Members(resourceID) ==
    {<<k, Bucket(resourceID)[k].W>> : k \in DOMAIN Bucket(resourceID)}

MapSet(f, k, v) == [x \in DOMAIN f \cup {k} |-> IF x = k THEN v ELSE f[x]]
MapDelete(f, k) == [x \in DOMAIN f \ {k} |-> f[x]]

\* the server after NewBraidMockServer, in front of a file store and a
\* population of clients
InitServer(store, contents, leaving, proxy) ==
    /\ files = store
    /\ proxyURL = proxy
    /\ writable = contents
    /\ leavers = leaving
    /\ events = <<>>
    /\ evCount = 0
    /\ clock = 0
    /\ subscriptions = EmptyMap
    /\ versions = EmptyMap
    /\ hashes = EmptyMap
    /\ mu = Unlocked
    /\ hpc = [h \in Conns |-> "h_new"]
    /\ hreq = [h \in Conns |-> NoReq]
    /\ status = [h \in Conns |-> ""]
    /\ broken = [h \in Conns |-> FALSE]
    /\ gpc = [h \in Conns |-> "g_none"]
    /\ stream = [h \in Conns |-> <<>>]
    /\ dpc = "d_idle"
    /\ dev = NoEvent
    /\ ddata = <<>>
    /\ dsubs = "nil"
    /\ dvisited = {}
    /\ dfresh = {}
    /\ dsubID = ""
    /\ dsub = NoSub
    /\ dsnap = {}
    /\ dseen = {}
    /\ dfailed = {}
    /\ crashed = FALSE

\* the server started without -proxy
InitWith(store, contents, leaving) ==
    InitServer(store, contents, leaving, FALSE)

\* one file, rewritten with several contents; one client may go away
Init ==
    InitWith([p \in {"r1"} |-> BodyA1],
             {BodyA1s, BodyA2, BodyBad, BodyEmpty}, MaxDisconnects)

\* two files, rewritten with one content; every client may go away
InitWide ==
    InitWith([p \in {"r1", "r2"} |-> BodyA1], {BodyA2}, NumConns)

(***************************************************************************)
(* Environment: the file store, the watcher and the clients.               *)
(***************************************************************************)
\* an existing .braid file is rewritten; the watcher delivers a Write event
FileWrite(p, b) ==
    /\ ~crashed
    /\ evCount < MaxEvents
    /\ p \in DOMAIN files
    /\ b \in writable
    /\ files' = MapSet(files, p, b)
    /\ evCount' = evCount + 1
    /\ events' = Append(events, [rel |-> p, ext |-> ".braid", op |-> "Write",
                                 n |-> evCount + 1])
    /\ UNCHANGED <<proxyURL, writable, leavers, clock, regVars, mu, connVars, stream, dispVars, crashed>>

\* the watcher delivers an event that is not a write of a .braid file
OtherEvent(p, ext, op) ==
    /\ ~crashed
    /\ evCount < MaxEvents
    /\ ~(ext = ".braid" /\ op = "Write")
    /\ evCount' = evCount + 1
    /\ events' = Append(events, [rel |-> p, ext |-> ext, op |-> op,
                                 n |-> evCount + 1])
    /\ UNCHANGED <<files, proxyURL, writable, leavers, clock, regVars, mu, connVars, stream, dispVars,
                   crashed>>

\* the client of a subscription goes away: its request context is cancelled.
\* The handler looks at the context only at <-notify and nothing writes to
\* the connection before AddSubscription has returned, so a client that
\* goes away earlier is seen exactly as one that goes away at that point.
Disconnect(h) ==
    /\ ~crashed
    /\ ~broken[h]
    /\ Cardinality({g \in Conns : broken[g]}) < leavers
    /\ hpc[h] \in {"h_send", "h_wait"}
    /\ broken' = [broken EXCEPT ![h] = TRUE]
    /\ UNCHANGED <<envVars, regVars, mu, hpc, hreq, status, gpc, stream,
                   dispVars, crashed>>


(***************************************************************************)
(* Frames.  stream[h] holds the frames that reached the client of          *)
(* connection h; each records who wrote it and for which watcher event     *)
(* (0 for the handler's initial frame).  A write to a connection whose     *)
(* client has gone fails and leaves nothing on the stream.                 *)
(***************************************************************************)
\* a full update that names a parent version
FullFrameWithParents(data, hash) ==
    [kind |-> "full", version |-> hash, parents |-> hash, body |-> data,
     ops |-> <<>>]

FullFrame(data, hash) ==
    [kind |-> "full", version |-> hash, parents |-> "", body |-> data,
     ops |-> <<>>]

\* a patch frame whose Parents is the version it announces
PatchFrameOwnParent(newHash, lastHash, patchOperations) ==
    [kind |-> "patch", version |-> newHash, parents |-> newHash,
     body |-> <<>>, ops |-> patchOperations]

PatchFrame(newHash, lastHash, patchOperations) ==
    [kind |-> "patch", version |-> newHash, parents |-> lastHash,
     body |-> <<>>, ops |-> patchOperations]

Written(frame, by, n) ==
    [kind |-> frame.kind, version |-> frame.version,
     parents |-> frame.parents, body |-> frame.body, ops |-> frame.ops,
     by |-> by, ev |-> n]

\* a sendFullUpdate that writes a patch frame
sendFullUpdateAsPatch(sub, data, hash) ==
    <<PatchFrame(hash, sub.LastHash, <<>>)>>

\* sendFullUpdate: the frame it writes to sub.W
sendFullUpdate(sub, data, hash) == <<FullFrame(data, hash)>>

\* sendPatchUpdate: the error it returns and the frames it writes to sub.W
sendPatchUpdate(sub, newData, newHash) ==
    LET diff == DiffTable[<<sub.LastResource, newData>>]
    IN IF diff.err THEN [err |-> TRUE, frames |-> <<>>]
       ELSE IF Len(diff.ops) = 0 THEN [err |-> FALSE, frames |-> <<>>]
       ELSE [err |-> FALSE,
             frames |-> <<PatchFrame(newHash, sub.LastHash, diff.ops)>>]

\* a notifySubscribers that ignores the error of sendPatchUpdate
sendUpdateNoFallback(sub, newData, newHash) ==
    IF Len(sub.LastResource) = 0
    THEN sendFullUpdate(sub, newData, newHash)
    ELSE sendPatchUpdate(sub, newData, newHash).frames

\* a notifySubscribers that sends the full update after every patch attempt
sendUpdatePatchThenFull(sub, newData, newHash) ==
    IF Len(sub.LastResource) = 0
    THEN sendFullUpdate(sub, newData, newHash)
    ELSE sendPatchUpdate(sub, newData, newHash).frames
         \o sendFullUpdate(sub, newData, newHash)

\* notifySubscribers, "Create and send update": all frames written for sub
sendUpdate(sub, newData, newHash) ==
    IF Len(sub.LastResource) = 0
    THEN sendFullUpdate(sub, newData, newHash)
    ELSE LET res == sendPatchUpdate(sub, newData, newHash)
         IN IF res.err
            THEN res.frames \o sendFullUpdate(sub, newData, newHash)
            ELSE res.frames

\* the stream of connection w after `frames` are written to it
WriteAll(w, frames, by, n) ==
    IF broken[w] THEN stream[w]
    ELSE stream[w] \o [i \in 1..Len(frames) |-> Written(frames[i], by, n)]

(***************************************************************************)
(* The bytes of a frame, as the calls of fmt.Fprintf and Write print them: *)
(* a sequence of lines.  A line has a header name h (empty for the blank   *)
(* line; "data" for the bytes that follow a blank line, "gap" for the      *)
(* separator between two operations, "end" for the separator that closes   *)
(* the frame), a printed value v and printed bytes b.                      *)
(***************************************************************************)
Line(name, value, bytes) == [h |-> name, v |-> value, b |-> bytes]

\* sendFullUpdate and the initial state of handleBraidRequest
FullWire(data, hash) ==
    <<Line("Version", hash, <<>>),
      Line("Parents", "", <<>>),
      Line("Content-Length", ToString(Len(data)), <<>>),
      Line("", "", <<>>),
      Line("data", "", data),
      Line("end", "", <<>>)>>

\* the body of the loop over patchOperations, for the operation at index i
\* (from 1)
PatchSection(patchOperations, i) ==
    LET op == patchOperations[i]
        valueJSON == jsonMarshal(op.Value)
    IN (IF i > 1 THEN <<Line("gap", "", <<>>)>> ELSE <<>>)
       \o <<Line("Content-Length", ToString(Len(valueJSON)), <<>>),
            Line("Content-Range", op.Type, op.Path),
            Line("", "", <<>>),
            Line("data", "", valueJSON)>>

RECURSIVE PatchSections(_, _)
PatchSections(patchOperations, i) ==
    IF i > Len(patchOperations) THEN <<>>
    ELSE PatchSection(patchOperations, i)
         \o PatchSections(patchOperations, i + 1)

\* a sendPatchUpdate that always prints the Patches header
PatchWireAlwaysCount(newHash, lastHash, patchOperations) ==
    <<Line("Version", newHash, <<>>),
      Line("Parents", lastHash, <<>>),
      Line("Patches", ToString(Len(patchOperations)), <<>>),
      Line("", "", <<>>)>>
    \o PatchSections(patchOperations, 1)
    \o <<Line("end", "", <<>>)>>

\* sendPatchUpdate, from "Write headers" on
PatchWire(newHash, lastHash, patchOperations) ==
    <<Line("Version", newHash, <<>>),
      Line("Parents", lastHash, <<>>)>>
    \o (IF Len(patchOperations) > 1
        THEN <<Line("Patches", ToString(Len(patchOperations)), <<>>),
               Line("", "", <<>>)>>
        ELSE <<>>)
    \o PatchSections(patchOperations, 1)
    \o <<Line("end", "", <<>>)>>

\* the bytes of a written frame
Wire(frame) ==
    IF frame.kind = "full" THEN FullWire(frame.body, frame.version)
    ELSE PatchWire(frame.version, frame.parents, frame.ops)

(***************************************************************************)
(* The reader of a patch frame: the operations it finds in the bytes, and  *)
(* the document that results from applying them in order.                  *)
(***************************************************************************)
\* the indexes of the Content-Range lines, in order
RECURSIVE RangeLines(_, _)
RangeLines(wire, i) ==
    IF i > Len(wire) THEN <<>>
    ELSE (IF wire[i].h = "Content-Range" THEN <<i>> ELSE <<>>)
         \o RangeLines(wire, i + 1)

\* an operation section: Content-Length, Content-Range, blank line, value
ReadOperations(wire) ==
    LET at == RangeLines(wire, 1)
    IN [j \in 1..Len(at) |->
          [Type |-> wire[at[j]].v, Path |-> wire[at[j]].b,
           Value |-> wire[at[j] + 2].b]]

\* one operation applied to an object; the path is "/" and the key
ApplyOperation(doc, op) ==
    LET k == op.Path[2]
    IN IF op.Type = "remove" THEN [x \in DOMAIN doc \ {k} |-> doc[x]]
       ELSE [x \in DOMAIN doc \cup {k} |->
               IF x = k THEN op.Value[1] ELSE doc[x]]

RECURSIVE ApplyPatch(_, _)
ApplyPatch(doc, operations) ==
    IF operations = <<>> THEN doc
    ELSE ApplyPatch(ApplyOperation(doc, Head(operations)), Tail(operations))

(***************************************************************************)
(* The range over subs in notifySubscribers runs without the lock.  A      *)
(* handler that writes the same map while the range is between two         *)
(* entries races with it: the runtime may stop the process with            *)
(* "concurrent map iteration and map write".                               *)
(***************************************************************************)
InRange == dpc \in {"d_iter", "d_send", "d_upd"}

RangesOver(resourceID) ==
    /\ InRange
    /\ dsubs = "live"
    /\ getResourceIDFromPath(dev.rel) = resourceID

RaceOutcomes(resourceID) ==
    IF dpc = "d_iter" /\ RangesOver(resourceID) THEN {FALSE, TRUE} ELSE {FALSE}

(***************************************************************************)
(* handleBraidRequest.                                                     *)
(* s.versions and s.hashes are written under the lock and never read, so   *)
(* the critical section that records them is one step with the file read   *)
(* before it.                                                              *)
(***************************************************************************)
\* no local file: proxy or 404
HRequestMissing(h, resourceID) ==
    /\ ~crashed
    /\ hpc[h] = "h_new"
    /\ getPathFromResourceID(resourceID) \notin DOMAIN files
    /\ status' = [status EXCEPT ![h] = IF proxyURL THEN "proxied" ELSE "404"]
    /\ hpc' = [hpc EXCEPT ![h] = "h_done"]
    /\ UNCHANGED <<envVars, regVars, mu, hreq, broken, gpc, stream, dispVars,
                   crashed>>

\* the file exists but cannot be read: 500
HRequestReadError(h, resourceID) ==
    /\ ~crashed
    /\ hpc[h] = "h_new"
    /\ getPathFromResourceID(resourceID) \in DOMAIN files
    /\ status' = [status EXCEPT ![h] = "500"]
    /\ hpc' = [hpc EXCEPT ![h] = "h_done"]
    /\ UNCHANGED <<envVars, regVars, mu, hreq, broken, gpc, stream, dispVars,
                   crashed>>

\* a handler that registers the subscription before it checks the Flusher
HRequestRegistersFirst(h, resourceID, subscribe, flusherOK) ==
    /\ ~crashed
    /\ hpc[h] = "h_new"
    /\ getPathFromResourceID(resourceID) \in DOMAIN files
    /\ CanLock
    /\ LET data == files[getPathFromResourceID(resourceID)]
           hash == calculateHash(data)
       IN /\ versions' = MapSet(versions, resourceID, hash)
          /\ hashes' = MapSet(hashes, resourceID, hash)
          /\ IF subscribe /\ flusherOK
             THEN /\ status' = [status EXCEPT ![h] = "209"]
                  /\ hpc' = [hpc EXCEPT ![h] = "h_add"]
                  /\ hreq' = [hreq EXCEPT ![h] =
                                [resourceID |-> resourceID, data |-> data,
                                 hash |-> hash, subID |-> ""]]
                  /\ UNCHANGED subscriptions
             ELSE /\ status' = [status EXCEPT ![h] =
                                  IF subscribe THEN "500" ELSE "200"]
                  /\ hpc' = [hpc EXCEPT ![h] = "h_done"]
                  /\ subscriptions' =
                        IF subscribe
                        THEN MapSet(subscriptions, resourceID,
                                    MapSet(Bucket(resourceID), "0",
                                           [ID |-> "0", W |-> h,
                                            LastResource |-> data,
                                            LastHash |-> hash]))
                        ELSE subscriptions
                  /\ UNCHANGED hreq
    /\ UNCHANGED <<envVars, mu, broken, gpc, stream, dispVars, crashed>>

\* the file is read, its hash recorded, and the response started: 209 for a
\* subscription, 500 for one whose writer is no Flusher, a plain response
\* otherwise
HRequest(h, resourceID, subscribe, flusherOK) ==
    /\ ~crashed
    /\ hpc[h] = "h_new"
    /\ getPathFromResourceID(resourceID) \in DOMAIN files
    /\ CanLock
    /\ LET data == files[getPathFromResourceID(resourceID)]
           hash == calculateHash(data)
       IN /\ versions' = MapSet(versions, resourceID, hash)
          /\ hashes' = MapSet(hashes, resourceID, hash)
          /\ IF subscribe /\ flusherOK
             THEN /\ status' = [status EXCEPT ![h] = "209"]
                  /\ hpc' = [hpc EXCEPT ![h] = "h_add"]
                  /\ hreq' = [hreq EXCEPT ![h] =
                                [resourceID |-> resourceID, data |-> data,
                                 hash |-> hash, subID |-> ""]]
             ELSE /\ status' = [status EXCEPT ![h] =
                                  IF subscribe THEN "500" ELSE "200"]
                  /\ hpc' = [hpc EXCEPT ![h] = "h_done"]
                  /\ UNCHANGED hreq
    /\ UNCHANGED <<envVars, subscriptions, mu, broken, gpc, stream, dispVars,
                   crashed>>

\* AddSubscription: s.mu.Lock()
HAddLock(h) ==
    /\ ~crashed
    /\ hpc[h] = "h_add"
    /\ CanLock
    /\ mu' = Locked(Handler(h))
    /\ hpc' = [hpc EXCEPT ![h] = "h_add_locked"]
    /\ UNCHANGED <<envVars, regVars, hreq, status, broken, gpc, stream,
                   dispVars, crashed>>

\* generateRandomID: the clock reading t printed in decimal
generateRandomID(t) == ToString(t)

\* an AddSubscription that stores no baseline
AddSubscriptionNoBaseline(resourceID, subID, w, initialResource) ==
    MapSet(subscriptions, resourceID,
           MapSet(Bucket(resourceID), subID,
                  [ID |-> subID, W |-> w, LastResource |-> <<>>,
                   LastHash |-> ""]))

\* AddSubscription: the registry after the insert
AddSubscription(resourceID, subID, w, initialResource) ==
    MapSet(subscriptions, resourceID,
           MapSet(Bucket(resourceID), subID,
                  [ID |-> subID, W |-> w, LastResource |-> initialResource,
                   LastHash |-> calculateHash(initialResource)]))

\* time.Now().UnixNano(): the clock does not run backwards, and two readings
\* may be equal.  Readings are counted from the first one.
ClockReadings == {t \in Clock : clock <= t /\ t <= clock + 1}

\* AddSubscription body and deferred Unlock; t is what the clock returns
HAddSubscription(h, t) ==
    /\ ~crashed
    /\ hpc[h] = "h_add_locked"
    /\ mu.w = Handler(h)
    /\ t \in ClockReadings
    /\ clock' = t
    /\ LET subID == generateRandomID(t)
           resourceID == hreq[h].resourceID
       IN /\ subscriptions' =
                AddSubscription(resourceID, subID, h, hreq[h].data)
          /\ hreq' = [hreq EXCEPT ![h].subID = subID]
          /\ dfresh' = IF RangesOver(resourceID)
                          /\ subID \notin DOMAIN Bucket(resourceID)
                       THEN dfresh \cup {subID} ELSE dfresh
          /\ crashed' \in RaceOutcomes(resourceID)
    /\ mu' = Unlocked
    /\ hpc' = [hpc EXCEPT ![h] = "h_send"]
    /\ UNCHANGED <<files, proxyURL, writable, leavers, events, evCount, versions, hashes, status,
                   broken, gpc, stream, dpc, dev, ddata, dsubs, dvisited,
                   dsubID, dsub, dsnap, dseen, dfailed>>

\* the initial frame is written to w, then the removal goroutine is started
HSendInitial(h) ==
    /\ ~crashed
    /\ hpc[h] = "h_send"
    /\ stream' = [stream EXCEPT ![h] =
                    WriteAll(h, <<FullFrame(hreq[h].data, hreq[h].hash)>>,
                             "handler", 0)]
    /\ gpc' = [gpc EXCEPT ![h] = "g_wait"]
    /\ hpc' = [hpc EXCEPT ![h] = "h_wait"]
    /\ UNCHANGED <<envVars, regVars, mu, hreq, status, broken, dispVars,
                   crashed>>

\* <-notify: the handler returns once the context is done
HReturn(h) ==
    /\ ~crashed
    /\ hpc[h] = "h_wait"
    /\ broken[h]
    /\ hpc' = [hpc EXCEPT ![h] = "h_closed"]
    /\ UNCHANGED <<envVars, regVars, mu, hreq, status, broken, gpc, stream,
                   dispVars, crashed>>

\* the goroutine: <-notify, then RemoveSubscription: s.mu.Lock()
GRemoveLock(h) ==
    /\ ~crashed
    /\ gpc[h] = "g_wait"
    /\ broken[h]
    /\ CanLock
    /\ mu' = Locked(Remover(h))
    /\ gpc' = [gpc EXCEPT ![h] = "g_locked"]
    /\ UNCHANGED <<envVars, regVars, hpc, hreq, status, broken, stream,
                   dispVars, crashed>>

\* a RemoveSubscription that drops the bucket when the ID is not in it
RemoveSubscriptionDropsBucket(resourceID, subID) ==
    IF resourceID \in DOMAIN subscriptions
    THEN IF subID \in DOMAIN subscriptions[resourceID]
            /\ DOMAIN subscriptions[resourceID] # {subID}
         THEN MapSet(subscriptions, resourceID,
                     MapDelete(subscriptions[resourceID], subID))
         ELSE MapDelete(subscriptions, resourceID)
    ELSE subscriptions

\* a RemoveSubscription that leaves the emptied bucket in s.subscriptions
RemoveSubscriptionKeepsBucket(resourceID, subID) ==
    IF resourceID \in DOMAIN subscriptions
    THEN MapSet(subscriptions, resourceID,
                MapDelete(subscriptions[resourceID], subID))
    ELSE subscriptions

\* a RemoveSubscription that deletes nothing
RemoveSubscriptionDeletesNothing(resourceID, subID) == subscriptions

\* RemoveSubscription: the registry after the delete
RemoveSubscription(resourceID, subID) ==
    IF resourceID \in DOMAIN subscriptions
    THEN LET subs == MapDelete(subscriptions[resourceID], subID)
         IN IF DOMAIN subs = {}
            THEN MapDelete(subscriptions, resourceID)
            ELSE MapSet(subscriptions, resourceID, subs)
    ELSE subscriptions

\* RemoveSubscription body and deferred Unlock
GRemoveSubscription(h) ==
    /\ ~crashed
    /\ gpc[h] = "g_locked"
    /\ mu.w = Remover(h)
    /\ LET resourceID == hreq[h].resourceID
           subID == hreq[h].subID
       IN /\ subscriptions' = RemoveSubscription(resourceID, subID)
          /\ dfresh' = IF RangesOver(resourceID) THEN dfresh \ {subID}
                       ELSE dfresh
          \* a bucket deleted from s.subscriptions is no longer the map
          \* that subs refers to
          /\ dsubs' = IF /\ dsubs = "live"
                         /\ getResourceIDFromPath(dev.rel) = resourceID
                         /\ resourceID \notin DOMAIN subscriptions'
                      THEN "orphan" ELSE dsubs
          /\ crashed' \in RaceOutcomes(resourceID)
    /\ mu' = Unlocked
    /\ gpc' = [gpc EXCEPT ![h] = "g_done"]
    /\ UNCHANGED <<envVars, versions, hashes, hpc, hreq, status, broken,
                   stream, dpc, dev, ddata, dvisited, dsubID, dsub, dsnap,
                   dseen, dfailed>>

(***************************************************************************)
(* watchFiles and notifySubscribers.  The critical sections of the watcher *)
(* goroutine (the versions, the read of s.subscriptions, the update after  *)
(* a write) touch the registry only under the lock and are one step each.  *)
(***************************************************************************)
DispIdle ==
    /\ dpc' = "d_idle"
    /\ dev' = NoEvent
    /\ ddata' = <<>>
    /\ dsubs' = "nil"
    /\ dvisited' = {}
    /\ dfresh' = {}
    /\ dsubID' = ""
    /\ dsub' = NoSub
    /\ dsnap' = {}
    /\ dseen' = {}
    /\ dfailed' = {}

Qualifies(event) == event.ext = ".braid" /\ event.op = "Write"

\* a watcher that hands over the newest queued event first
NextEventNewest == events[Len(events)]

\* case event := <-s.watcher.Events: the next event, in delivery order
NextEvent == Head(events)

\* the event is not a write of a .braid file: continue
DTakeSkip ==
    /\ ~crashed
    /\ dpc = "d_idle"
    /\ events # <<>>
    /\ ~Qualifies(NextEvent)
    /\ events' = Tail(events)
    /\ UNCHANGED <<files, proxyURL, writable, leavers, evCount, clock, regVars, mu, connVars, stream,
                   dispVars, crashed>>

\* a watcher that, when ReadFile fails, records and notifies the empty data
DTakeReadErrorNotifies ==
    /\ ~crashed
    /\ dpc = "d_idle"
    /\ events # <<>>
    /\ Qualifies(NextEvent)
    /\ CanLock
    /\ events' = Tail(events)
    /\ dev' = NextEvent
    /\ ddata' = <<>>
    /\ versions' = MapSet(versions, getResourceIDFromPath(NextEvent.rel),
                          calculateHash(<<>>))
    /\ hashes' = MapSet(hashes, getResourceIDFromPath(NextEvent.rel),
                        calculateHash(<<>>))
    /\ dpc' = "d_notify"
    /\ UNCHANGED <<files, proxyURL, writable, leavers, evCount, clock,
                   subscriptions, mu, connVars, stream, dsubs, dvisited,
                   dfresh, dsubID, dsub, dsnap, dseen, dfailed, crashed>>

\* ReadFile fails: the event is dropped
DTakeReadError ==
    /\ ~crashed
    /\ dpc = "d_idle"
    /\ events # <<>>
    /\ Qualifies(NextEvent)
    /\ events' = Tail(events)
    /\ UNCHANGED <<files, proxyURL, writable, leavers, evCount, clock, regVars, mu, connVars, stream,
                   dispVars, crashed>>

\* the file is read, its hash recorded, notifySubscribers is called
DTake ==
    /\ ~crashed
    /\ dpc = "d_idle"
    /\ events # <<>>
    /\ Qualifies(NextEvent)
    /\ NextEvent.rel \in DOMAIN files
    /\ CanLock
    /\ events' = Tail(events)
    /\ dev' = NextEvent
    /\ ddata' = files[NextEvent.rel]
    /\ versions' = MapSet(versions, getResourceIDFromPath(NextEvent.rel),
                          calculateHash(files[NextEvent.rel]))
    /\ hashes' = MapSet(hashes, getResourceIDFromPath(NextEvent.rel),
                        calculateHash(files[NextEvent.rel]))
    /\ dpc' = "d_notify"
    /\ UNCHANGED <<files, proxyURL, writable, leavers, evCount, clock, subscriptions, mu, connVars,
                   stream, dsubs, dvisited, dfresh, dsubID, dsub, dsnap,
                   dseen, dfailed, crashed>>

\* s.mu.RLock(); subs := s.subscriptions[resourceID]; s.mu.RUnlock()
\* subs is the map itself, not a copy of it; a missing bucket is the nil
\* map, and len(subs) == 0 returns
DSnapshotNil ==
    /\ ~crashed
    /\ dpc = "d_notify"
    /\ CanRLock
    /\ getResourceIDFromPath(dev.rel) \notin DOMAIN subscriptions
    /\ DispIdle
    /\ UNCHANGED <<envVars, regVars, mu, connVars, stream, crashed>>

DSnapshot ==
    /\ ~crashed
    /\ dpc = "d_notify"
    /\ CanRLock
    /\ getResourceIDFromPath(dev.rel) \in DOMAIN subscriptions
    /\ dsubs' = "live"
    /\ dsnap' = Members(getResourceIDFromPath(dev.rel))
    /\ dpc' = "d_iter"
    /\ UNCHANGED <<envVars, regVars, mu, connVars, stream, dev, ddata,
                   dvisited, dfresh, dsubID, dsub, dseen, dfailed, crashed>>

\* the entries of the map subs refers to, as they are now
SubsNow ==
    IF dsubs = "live" THEN Bucket(getResourceIDFromPath(dev.rel)) ELSE EmptyMap

\* entries the range may produce next: those not produced yet, and those
\* created since the range started (which may also be skipped)
Candidates == (DOMAIN SubsNow \ dvisited) \cup (dfresh \cap DOMAIN SubsNow)

\* for subID, sub := range subs, and the check of sub.LastHash
DIterNext(k) ==
    /\ ~crashed
    /\ dpc = "d_iter"
    /\ k \in Candidates
    /\ LET sub == SubsNow[k]
       IN /\ dvisited' = dvisited \cup {k}
          /\ dfresh' = dfresh \ {k}
          /\ dseen' = dseen \cup {<<k, sub.W>>}
          /\ IF sub.LastHash = calculateHash(ddata)
             THEN UNCHANGED <<dpc, dsubID, dsub>>
             ELSE /\ dpc' = "d_send"
                  /\ dsubID' = k
                  /\ dsub' = sub
    /\ UNCHANGED <<envVars, regVars, mu, connVars, stream, dev, ddata, dsubs,
                   dsnap, dfailed, crashed>>

\* the range is over (or len(subs) was 0): notifySubscribers returns
DIterEnd ==
    /\ ~crashed
    /\ dpc = "d_iter"
    /\ (DOMAIN SubsNow \ dvisited) \ dfresh = {}
    /\ DispIdle
    /\ UNCHANGED <<envVars, regVars, mu, connVars, stream, crashed>>

\* a ResponseWriter used after its handler has returned: the write is lost,
\* or the process panics in the watcher goroutine
LateWriteOutcomes(w, frames) ==
    IF frames # <<>> /\ hpc[w] = "h_closed" THEN {FALSE, TRUE} ELSE {FALSE}

\* sendFullUpdate / sendPatchUpdate on the copy sub; errors are ignored
DSend ==
    /\ ~crashed
    /\ dpc = "d_send"
    /\ LET frames == sendUpdate(dsub, ddata, calculateHash(ddata))
           w == dsub.W
       IN /\ stream' = [stream EXCEPT ![w] =
                          WriteAll(w, frames, "dispatcher", dev.n)]
          /\ dfailed' = IF frames # <<>> /\ broken[w]
                        THEN dfailed \cup {<<dsubID, w>>} ELSE dfailed
          /\ crashed' \in LateWriteOutcomes(w, frames)
    /\ dpc' = "d_upd"
    /\ UNCHANGED <<envVars, regVars, mu, connVars, dev, ddata, dsubs,
                   dvisited, dfresh, dsubID, dsub, dsnap, dseen>>

\* an update that stores the entry whether or not it is still there
UpdateDeliveredRecreates(resourceID, subID, newData) ==
    MapSet(subscriptions, resourceID,
           MapSet(Bucket(resourceID), subID,
                  [ID |-> subID, W |-> dsub.W, LastResource |-> newData,
                   LastHash |-> calculateHash(newData)]))

\* an update that records the delivery in every bucket of the registry
UpdateDeliveredEverywhere(resourceID, subID, newData) ==
    [r \in DOMAIN subscriptions |->
        [k \in DOMAIN subscriptions[r] |->
            [subscriptions[r][k] EXCEPT !.LastResource = newData,
                                        !.LastHash = calculateHash(newData)]]]

\* an update that records the new hash and keeps the old LastResource
UpdateDeliveredHashOnly(resourceID, subID, newData) ==
    IF resourceID \in DOMAIN subscriptions
       /\ subID \in DOMAIN subscriptions[resourceID]
    THEN [subscriptions EXCEPT ![resourceID][subID] =
            [@ EXCEPT !.LastHash = calculateHash(newData)]]
    ELSE subscriptions

\* an update that records the delivery for every subscription of the bucket
UpdateDeliveredAll(resourceID, subID, newData) ==
    IF resourceID \in DOMAIN subscriptions
    THEN [subscriptions EXCEPT ![resourceID] =
            [k \in DOMAIN @ |->
                [@[k] EXCEPT !.LastResource = newData,
                             !.LastHash = calculateHash(newData)]]]
    ELSE subscriptions

\* "Update the last resource and hash for this subscription": the registry
\* after the update
UpdateDelivered(resourceID, subID, newData) ==
    IF resourceID \in DOMAIN subscriptions
       /\ subID \in DOMAIN subscriptions[resourceID]
    THEN [subscriptions EXCEPT ![resourceID][subID] =
            [@ EXCEPT !.LastResource = newData,
                      !.LastHash = calculateHash(newData)]]
    ELSE subscriptions

\* s.mu.Lock(); the update; s.mu.Unlock()
DUpdate ==
    /\ ~crashed
    /\ dpc = "d_upd"
    /\ CanLock
    /\ subscriptions' =
          UpdateDelivered(getResourceIDFromPath(dev.rel), dsubID, ddata)
    /\ dpc' = "d_iter"
    /\ dsubID' = ""
    /\ dsub' = NoSub
    /\ UNCHANGED <<envVars, versions, hashes, mu, connVars, stream, dev,
                   ddata, dsubs, dvisited, dfresh, dsnap, dseen, dfailed,
                   crashed>>

(***************************************************************************)
(* notifySubscribers with its critical sections in two steps each: the     *)
(* lock is taken in one step, the section runs and releases it in the      *)
(* next.                                                                   *)
(***************************************************************************)
\* s.mu.RLock()
DRLock ==
    /\ ~crashed
    /\ dpc = "d_notify"
    /\ CanRLock
    /\ mu' = RLocked(mu)
    /\ dpc' = "d_rlocked"
    /\ UNCHANGED <<envVars, regVars, connVars, stream, dev, ddata, dsubs,
                   dvisited, dfresh, dsubID, dsub, dsnap, dseen, dfailed,
                   crashed>>

\* subs := s.subscriptions[resourceID]; s.mu.RUnlock(); len(subs) == 0
DSnapshotNilLocked ==
    /\ ~crashed
    /\ dpc = "d_rlocked"
    /\ getResourceIDFromPath(dev.rel) \notin DOMAIN subscriptions
    /\ mu' = RUnlock(mu)
    /\ DispIdle
    /\ UNCHANGED <<envVars, regVars, connVars, stream, crashed>>

\* subs := s.subscriptions[resourceID]; s.mu.RUnlock()
DSnapshotLocked ==
    /\ ~crashed
    /\ dpc = "d_rlocked"
    /\ getResourceIDFromPath(dev.rel) \in DOMAIN subscriptions
    /\ mu' = RUnlock(mu)
    /\ dsubs' = "live"
    /\ dsnap' = Members(getResourceIDFromPath(dev.rel))
    /\ dpc' = "d_iter"
    /\ UNCHANGED <<envVars, regVars, connVars, stream, dev, ddata,
                   dvisited, dfresh, dsubID, dsub, dseen, dfailed, crashed>>

\* s.mu.Lock() before the update
DLock ==
    /\ ~crashed
    /\ dpc = "d_upd"
    /\ CanLock
    /\ mu' = Locked(Disp)
    /\ dpc' = "d_wlocked"
    /\ UNCHANGED <<envVars, regVars, connVars, stream, dev, ddata, dsubs,
                   dvisited, dfresh, dsubID, dsub, dsnap, dseen, dfailed,
                   crashed>>

\* the update; s.mu.Unlock()
DUpdateLocked ==
    /\ ~crashed
    /\ dpc = "d_wlocked"
    /\ mu.w = Disp
    /\ subscriptions' =
          UpdateDelivered(getResourceIDFromPath(dev.rel), dsubID, ddata)
    /\ mu' = Unlocked
    /\ dpc' = "d_iter"
    /\ dsubID' = ""
    /\ dsub' = NoSub
    /\ UNCHANGED <<envVars, versions, hashes, connVars, stream, dev,
                   ddata, dsubs, dvisited, dfresh, dsnap, dseen, dfailed,
                   crashed>>

(***************************************************************************)
(* Specification.                                                          *)
(***************************************************************************)
Environment ==
    \/ \E p \in Paths, b \in Bodies : FileWrite(p, b)
    \/ \E p \in Paths : OtherEvent(p, ".braid", "Chmod")
    \/ \E h \in Conns : Disconnect(h)

\* connections are numbered in the order in which their requests arrive
Arrives(h) == \A g \in Conns : g < h => hpc[g] # "h_new"

HandlerStep ==
    \E h \in Conns :
        \/ \E r \in Resources : Arrives(h) /\ HRequestMissing(h, r)
        \/ \E r \in Resources : Arrives(h) /\ HRequestReadError(h, r)
        \/ \E r \in Resources, s \in BOOLEAN, f \in BOOLEAN :
              Arrives(h) /\ (s \/ f) /\ HRequest(h, r, s, f)
        \/ HAddLock(h)
        \/ \E t \in Clock : HAddSubscription(h, t)
        \/ HSendInitial(h)
        \/ HReturn(h)
        \/ GRemoveLock(h)
        \/ GRemoveSubscription(h)

DispatcherStep ==
    \/ DTakeSkip
    \/ DTakeReadError
    \/ DTake
    \/ DSnapshotNil
    \/ DSnapshot
    \/ \E k \in DOMAIN SubsNow : DIterNext(k)
    \/ DIterEnd
    \/ DSend
    \/ DUpdate

Next == Environment \/ HandlerStep \/ DispatcherStep

Spec == Init /\ [][Next]_vars

SpecWide == InitWide /\ [][Next]_vars

\* the same server with the lock of notifySubscribers taken and released
\* in separate steps
DispatcherStepLocks ==
    \/ DTakeSkip
    \/ DTakeReadError
    \/ DTake
    \/ DRLock
    \/ DSnapshotNilLocked
    \/ DSnapshotLocked
    \/ \E k \in DOMAIN SubsNow : DIterNext(k)
    \/ DIterEnd
    \/ DSend
    \/ DLock
    \/ DUpdateLocked

NextLocks == Environment \/ HandlerStep \/ DispatcherStepLocks

\* one file, rewritten with one content; one client may go away
InitLocks ==
    InitWith([p \in {"r1"} |-> BodyA1], {BodyA2}, MaxDisconnects)

SpecLocks == InitLocks /\ [][NextLocks]_vars

\* the request handler of connection h from AddSubscription on
Serving(h) ==
    \/ HAddLock(h)
    \/ \E t \in Clock : HAddSubscription(h, t)
    \/ HSendInitial(h)
    \/ HReturn(h)

\* the goroutine that the handler of connection h starts
Goroutine(h) == GRemoveLock(h) \/ GRemoveSubscription(h)

\* the runtime keeps running every handler and every removal goroutine
\* that can take a step
Fairness ==
    \A h \in Conns : WF_vars(Serving(h)) /\ WF_vars(Goroutine(h))

SpecFair == InitLocks /\ [][Next]_vars /\ Fairness

\* one file, rewritten with contents that differ in one value or in their
\* keys; one client may go away
InitPatch ==
    InitWith([p \in {"r1"} |-> BodyA1], {BodyA2, BodyB3}, MaxDisconnects)

SpecPatch == InitPatch /\ [][Next]_vars

\* the same server started with or without -proxy
InitProxy ==
    \E proxy \in BOOLEAN :
        InitServer([p \in {"r1"} |-> BodyA1], {BodyA2}, MaxDisconnects,
                   proxy)

SpecProxy == InitProxy /\ [][Next]_vars

(***************************************************************************)
(* Properties.                                                             *)
(***************************************************************************)

\* C1: for a subscriber whose stream began with the handler's initial
\* frame, whenever the watcher goroutine is not between a write to it and
\* the update that follows, the LastHash recorded in the registry is the
\* version of the last frame that reached its stream.
C1_LastVersionIsLastWritten ==
    \A r \in DOMAIN subscriptions : \A k \in DOMAIN subscriptions[r] :
        LET sub == subscriptions[r][k]
            w == sub.W
        IN (/\ stream[w] # <<>>
            /\ stream[w][1].by = "handler"
            /\ ~(dpc \in {"d_send", "d_upd"} /\ dsub.W = w))
           => stream[w][Len(stream[w])].version = sub.LastHash

\* C2: on a stream that begins with the handler's initial frame, the
\* Parents of every patch frame is the Version of the frame before it.
C2_PatchParentsIsLastReceived ==
    \A h \in Conns :
        (stream[h] # <<>> /\ stream[h][1].by = "handler")
        => \A i \in 2..Len(stream[h]) :
              stream[h][i].kind = "patch"
              => stream[h][i].parents = stream[h][i - 1].version

\* C3: a subscriber with a non-empty LastResource and a LastHash that
\* differs from the new hash, whose diff succeeds with zero operations, is
\* written a Full Update frame (empty Parents, the whole new body).
C3_ZeroOperationsFallBackToFull ==
    [][(/\ dpc = "d_send"
        /\ dpc' = "d_upd"
        /\ ~broken[dsub.W]
        /\ Len(dsub.LastResource) > 0
        /\ dsub.LastHash # calculateHash(ddata)
        /\ ~DiffTable[<<dsub.LastResource, ddata>>].err
        /\ Len(DiffTable[<<dsub.LastResource, ddata>>].ops) = 0)
       => stream'[dsub.W] =
             Append(stream[dsub.W],
                    Written(FullFrame(ddata, calculateHash(ddata)),
                            "dispatcher", dev.n))]_vars

\* C4: when notifySubscribers returns, no subscriber whose write failed
\* during the pass is still in the registry.
C4_FailedSubscriberRemoved ==
    [][(dpc = "d_iter" /\ dpc' = "d_idle")
       => \A f \in dfailed :
             \A r \in DOMAIN subscriptions' :
                \A k \in DOMAIN subscriptions'[r] :
                   subscriptions'[r][k].W # f[2]]_vars

\* C5: the first frame on every stream is the handler's initial Full
\* Update; no frame of the watcher goroutine comes before it.
C5_InitialFrameFirst ==
    \A h \in Conns :
        stream[h] # <<>>
        => /\ stream[h][1].by = "handler"
           /\ stream[h][1].kind = "full"
           /\ stream[h][1].body = hreq[h].data

\* C6: events are dispatched one at a time in the order of the watcher:
\* the event being dispatched is older than every event still queued, the
\* frames of the watcher goroutine on a stream are in event order, and none
\* of them is for an event that is still queued or is newer than the event
\* being dispatched.
C6_FramesInEventOrder ==
    /\ \A i \in 1..Len(events) : dev.n < events[i].n
    /\ \A h \in Conns : \A j \in 1..Len(stream[h]) :
          stream[h][j].by = "dispatcher"
          => /\ \A i \in 1..(j - 1) : stream[h][i].ev < stream[h][j].ev
             /\ \A i \in 1..Len(events) : stream[h][j].ev < events[i].n
             /\ dpc # "d_idle" => stream[h][j].ev <= dev.n

\* C6, witness: a stream carrying frames of two change events, in order
C6_TwoEventsDelivered ==
    \E h \in Conns : \E i, j \in 1..Len(stream[h]) :
        /\ i < j
        /\ stream[h][i].by = "dispatcher"
        /\ stream[h][j].by = "dispatcher"
        /\ stream[h][i].ev < stream[h][j].ev

\* C7: once RemoveSubscription has removed a subscriber, the watcher
\* goroutine writes no frame to its ResponseWriter, and a removal during a
\* pass does not stop the pass.
C7_NoWriteAfterRemoval ==
    [][/\ (/\ dpc = "d_send"
           /\ dpc' = "d_upd"
           /\ sendUpdate(dsub, ddata, calculateHash(ddata)) # <<>>)
          => gpc[dsub.W] # "g_done"
       /\ (\E h \in Conns : gpc[h] = "g_locked" /\ gpc'[h] = "g_done")
          => ~crashed']_vars

\* C8: the watcher goroutine is never in its range over a bucket, which
\* it runs without the lock, while a handler holds the lock to insert into
\* or delete from that bucket.
C8_RegistryOnlyUnderLock ==
    \A h \in Conns :
        (mu.w = Handler(h) \/ mu.w = Remover(h))
        => ~RangesOver(hreq[h].resourceID)

\* C9: the subscribers a pass visits are among those registered when
\* s.subscriptions was read under the lock, and at the end of the pass they
\* are exactly those.
C9_PassVisitsSnapshot ==
    /\ dseen \subseteq dsnap
    /\ (dpc = "d_iter" /\ (DOMAIN SubsNow \ dvisited) \ dfresh = {})
       => dseen = dsnap

\* C10: AddSubscription increases the number of subscriptions of the
\* resource by exactly one, whatever the clock returns.
C10_AddSubscriptionFreshID ==
    [][\A h \in Conns :
          (hpc[h] = "h_add_locked" /\ hpc'[h] = "h_send")
          => /\ hreq'[h].subID \notin DOMAIN Bucket(hreq[h].resourceID)
             /\ Cardinality(DOMAIN subscriptions'[hreq[h].resourceID])
                = Cardinality(DOMAIN Bucket(hreq[h].resourceID)) + 1]_vars

\* C11: in a pass, a subscriber whose LastHash is the new hash is written
\* no frame and its entry is left as it is, and a subscriber of the same
\* bucket whose LastHash differs is still written a frame.
C11_SkipIsPerSubscriber ==
    [][/\ (dpc = "d_iter" /\ dpc' = "d_iter" /\ dvisited' # dvisited)
          => (stream' = stream /\ subscriptions' = subscriptions)
       /\ (/\ dpc = "d_send"
           /\ dpc' = "d_upd"
           /\ ~broken[dsub.W]
           /\ \E k \in DOMAIN SubsNow :
                 /\ k # dsubID
                 /\ SubsNow[k].LastHash = calculateHash(ddata))
          => Len(stream'[dsub.W]) = Len(stream[dsub.W]) + 1]_vars

\* C12: a subscriber whose LastResource is empty is written a Full Update
\* frame and no Patch frame.
C12_EmptyBaselineGetsFull ==
    [][(/\ dpc = "d_send"
        /\ dpc' = "d_upd"
        /\ ~broken[dsub.W]
        /\ Len(dsub.LastResource) = 0)
       => stream'[dsub.W] =
             Append(stream[dsub.W],
                    Written(FullFrame(ddata, calculateHash(ddata)),
                            "dispatcher", dev.n))]_vars

\* C12, witness: a subscriber with an empty LastResource has just been
\* written a Full Update while another subscriber of the bucket has a
\* non-empty LastResource
C12_EmptyBaselineServed ==
    /\ dpc = "d_upd"
    /\ Len(dsub.LastResource) = 0
    /\ stream[dsub.W] # <<>>
    /\ stream[dsub.W][Len(stream[dsub.W])].by = "dispatcher"
    /\ stream[dsub.W][Len(stream[dsub.W])].ev = dev.n
    /\ stream[dsub.W][Len(stream[dsub.W])].kind = "full"
    /\ \E k \in DOMAIN SubsNow :
          k # dsubID /\ Len(SubsNow[k].LastResource) > 0

\* C13: when the diff of a non-empty LastResource against the new body
\* fails, exactly one frame is written, a Full Update, and the pass goes on.
C13_DiffFailureFallsBackToFull ==
    [][(/\ dpc = "d_send"
        /\ dpc' = "d_upd"
        /\ ~broken[dsub.W]
        /\ Len(dsub.LastResource) > 0
        /\ DiffTable[<<dsub.LastResource, ddata>>].err)
       => /\ stream'[dsub.W] =
                Append(stream[dsub.W],
                       Written(FullFrame(ddata, calculateHash(ddata)),
                               "dispatcher", dev.n))
          /\ ~crashed']_vars

\* C13, witness: a Full Update has just been written after a failed diff
C13_DiffFailureServed ==
    /\ dpc = "d_upd"
    /\ Len(dsub.LastResource) > 0
    /\ DiffTable[<<dsub.LastResource, ddata>>].err
    /\ stream[dsub.W] # <<>>
    /\ stream[dsub.W][Len(stream[dsub.W])].ev = dev.n
    /\ stream[dsub.W][Len(stream[dsub.W])].kind = "full"

\* C14: after a write to one subscriber has failed in a pass, every other
\* subscriber of the pass whose LastHash differs from the new hash is still
\* written its frame, and the pass is not stopped while such subscribers
\* remain to be visited.
C14_WriteFailureIsolated ==
    [][/\ (/\ dpc = "d_send"
           /\ dpc' = "d_upd"
           /\ dfailed # {}
           /\ ~broken[dsub.W])
          => Len(stream'[dsub.W]) = Len(stream[dsub.W]) + 1
       /\ (/\ dpc = "d_iter"
           /\ dfailed # {}
           /\ \E k \in DOMAIN SubsNow \ dvisited :
                 SubsNow[k].LastHash # calculateHash(ddata))
          => ~crashed']_vars

\* C15: s.subscriptions holds no resource whose bucket is empty.
C15_NoEmptyBucket ==
    \A r \in DOMAIN subscriptions : DOMAIN subscriptions[r] # {}

\* C15, witness: RemoveSubscription has removed the last subscriber of a
\* resource
C15_LastSubscriberRemoved ==
    \E h \in Conns :
        /\ gpc[h] = "g_done"
        /\ hreq[h].resourceID \notin DOMAIN subscriptions

\* C16: RemoveSubscription for a resource or an ID that is not registered
\* leaves the registry as it is, and so does a second RemoveSubscription
\* with the arguments of the one that has just run.
C16_RemoveIdempotent ==
    [][\A r \in Resources : \A t \in Clock :
          LET k == generateRandomID(t)
          IN /\ (r \notin DOMAIN subscriptions
                 \/ k \notin DOMAIN subscriptions[r])
                => RemoveSubscription(r, k) = subscriptions
             /\ subscriptions' = RemoveSubscription(r, k)
                => RemoveSubscription(r, k)' = subscriptions']_vars

\* C16, witness: two subscriptions had the same ID, one goroutine has run
\* RemoveSubscription and the other holds the lock to run it for an ID that
\* is no longer registered
C16_RemovedTwice ==
    \E g, h \in Conns :
        /\ g # h
        /\ gpc[g] = "g_done"
        /\ gpc[h] = "g_locked"
        /\ hreq[g].resourceID = hreq[h].resourceID
        /\ hreq[g].subID = hreq[h].subID
        /\ hreq[h].subID \notin DOMAIN Bucket(hreq[h].resourceID)

\* C17: AddSubscription leaves in the bucket of the resource, created if
\* it was absent, an entry for the new ID with the caller's ResponseWriter,
\* LastResource = initialResource and LastHash = its hash, and writes
\* nothing to any stream.
C17_AddSubscriptionBaseline ==
    [][\A h \in Conns :
          (hpc[h] = "h_add_locked" /\ hpc'[h] = "h_send")
          => LET r == hreq[h].resourceID
                 k == hreq'[h].subID
             IN /\ r \in DOMAIN subscriptions'
                /\ k \in DOMAIN subscriptions'[r]
                /\ subscriptions'[r][k] =
                      [ID |-> k, W |-> h, LastResource |-> hreq[h].data,
                       LastHash |-> calculateHash(hreq[h].data)]
                /\ stream' = stream]_vars

\* C17, witness: AddSubscription has just returned to a handler and its
\* entry is the only one of a bucket
C17_SubscriptionAdded ==
    \E h \in Conns :
        /\ hpc[h] = "h_send"
        /\ DOMAIN Bucket(hreq[h].resourceID) = {hreq[h].subID}
        /\ Bucket(hreq[h].resourceID)[hreq[h].subID].W = h

\* C18: the update that follows a write changes nothing but LastResource
\* and LastHash of the entry with the ID of the subscription written to:
\* no entry is added or removed, and every other entry of the bucket and of
\* the other buckets is left as it is.
C18_UpdateTouchesOneEntry ==
    [][(dpc = "d_upd" /\ dpc' = "d_iter")
       => /\ DOMAIN subscriptions' = DOMAIN subscriptions
          /\ \A r \in DOMAIN subscriptions :
                /\ DOMAIN subscriptions'[r] = DOMAIN subscriptions[r]
                /\ \A k \in DOMAIN subscriptions[r] :
                      IF r = getResourceIDFromPath(dev.rel) /\ k = dsubID
                      THEN /\ subscriptions'[r][k].ID = subscriptions[r][k].ID
                           /\ subscriptions'[r][k].W = subscriptions[r][k].W
                      ELSE subscriptions'[r][k] = subscriptions[r][k]]_vars

\* C18, witness: a delivery has been recorded for a subscription while
\* another resource has a subscription that is at another version
C18_DeliveryRecorded ==
    /\ dpc = "d_iter"
    /\ \E k \in dvisited \cap DOMAIN SubsNow :
          /\ SubsNow[k].LastResource = ddata
          /\ \E i \in 1..Len(stream[SubsNow[k].W]) :
                stream[SubsNow[k].W][i].ev = dev.n
    /\ \E r \in DOMAIN subscriptions :
          /\ r # getResourceIDFromPath(dev.rel)
          /\ \E k \in DOMAIN subscriptions[r] :
                subscriptions[r][k].LastResource # ddata

\* C19: a thread that is writing a frame to a ResponseWriter holds no lock
\* on s.mu: not the handler that writes the initial frame, not the watcher
\* goroutine in sendFullUpdate or sendPatchUpdate (the only thread that
\* takes the read lock).
C19_NoLockDuringWrite ==
    /\ \A h \in Conns : hpc[h] = "h_send" => mu.w # Handler(h)
    /\ dpc = "d_send" => (mu.w # Disp /\ mu.r = 0)

\* C19, witness: the watcher goroutine is writing a frame while a handler
\* holds the lock
C19_WriteWhileOthersLock ==
    /\ dpc = "d_send"
    /\ sendUpdate(dsub, ddata, calculateHash(ddata)) # <<>>
    /\ \E h \in Conns : mu.w = Handler(h) \/ mu.w = Remover(h)

\* C20: a frame is written to a ResponseWriter only after its 209 status
\* has been sent and never after the client has gone and the handler has
\* returned.
C20_FramesOnlyWhileStreaming ==
    [][/\ \A h \in Conns :
             (hpc[h] = "h_send" /\ hpc'[h] = "h_wait") => status[h] = "209"
       /\ (/\ dpc = "d_send"
           /\ dpc' = "d_upd"
           /\ sendUpdate(dsub, ddata, calculateHash(ddata)) # <<>>)
          => /\ status[dsub.W] = "209"
             /\ hpc[dsub.W] # "h_closed"]_vars

\* C21: once the connection context of a subscriber is done, its entry
\* leaves the registry (for as long as the process runs), and an entry
\* leaves the registry only in the RemoveSubscription of a goroutine
\* whose connection context is done: there is no timeout.
C21_RemovedAfterDisconnect ==
    /\ \A h \in Conns :
          (broken[h] /\ \E r \in Resources : \E k \in DOMAIN Bucket(r) :
                            Bucket(r)[k].W = h)
          ~> (crashed \/ \A r \in Resources : \A k \in DOMAIN Bucket(r) :
                            Bucket(r)[k].W # h)
    /\ [][\A r \in Resources : \A k \in DOMAIN Bucket(r) :
            k \notin DOMAIN Bucket(r)'
            => \E h \in Conns :
                 /\ broken[h]
                 /\ gpc[h] = "g_locked" /\ gpc'[h] = "g_done"
                 /\ hreq[h].resourceID = r /\ hreq[h].subID = k]_vars

\* a subscriber that went away is no longer in the registry
C21_DisconnectedRemoved ==
    \E h \in Conns :
        /\ broken[h] /\ gpc[h] = "g_done" /\ ~crashed
        /\ stream[h] # <<>>
        /\ \A r \in Resources : \A k \in DOMAIN Bucket(r) : Bucket(r)[k].W # h

\* C22: when subscribers a and b of one resource hold different IDs and a
\* has gone away and been removed, the removal leaves the entry of b in
\* the registry, and every later event whose hash differs from the
\* LastHash of b writes a frame to b.
C22_SurvivorStillServed ==
    [][\A a \in Conns : \A b \in Conns \ {a} :
          (/\ hreq[a].resourceID = hreq[b].resourceID
           /\ hreq[a].subID # hreq[b].subID
           /\ hreq[b].subID \in DOMAIN Bucket(hreq[b].resourceID)
           /\ ~broken[b])
          => /\ (gpc[a] = "g_locked" /\ gpc'[a] = "g_done")
                => hreq[b].subID \in DOMAIN Bucket(hreq[b].resourceID)'
             /\ (/\ gpc[a] = "g_done"
                 /\ dpc = "d_send" /\ dpc' = "d_upd"
                 /\ dsubID = hreq[b].subID /\ dsub.W = b)
                => Len(stream'[b]) = Len(stream[b]) + 1]_vars

\* C23: for a subscriber with a non-empty LastResource whose diff against
\* the new content succeeds with at least one operation, the write is one
\* patch frame: its Version is the hash of the new content, its Parents is
\* the LastHash the subscriber had before the event, which is the hash of
\* its LastResource and, for the first event, of the body it was given
\* when it subscribed.
C23_PatchVersionAndParents ==
    [][(/\ dpc = "d_send" /\ dpc' = "d_upd"
        /\ Len(dsub.LastResource) > 0
        /\ ~DiffTable[<<dsub.LastResource, ddata>>].err
        /\ Len(DiffTable[<<dsub.LastResource, ddata>>].ops) >= 1
        /\ ~broken[dsub.W])
       => LET w == dsub.W
              f == stream'[w][Len(stream'[w])]
          IN /\ Len(stream'[w]) = Len(stream[w]) + 1
             /\ f.kind = "patch"
             /\ f.ops = DiffTable[<<dsub.LastResource, ddata>>].ops
             /\ f.version = calculateHash(ddata)
             /\ f.parents = dsub.LastHash
             /\ f.parents = calculateHash(dsub.LastResource)
             /\ dev.n = 1 => f.parents = hreq[w].hash]_vars

\* the first change reached a subscriber as a patch on its initial frame
C23_FirstChangePatched ==
    \E h \in Conns :
        /\ Len(stream[h]) = 2
        /\ stream[h][1].by = "handler"
        /\ stream[h][2].by = "dispatcher"
        /\ stream[h][2].kind = "patch"
        /\ stream[h][2].ev = 1
        /\ stream[h][2].parents = stream[h][1].version
        /\ stream[h][2].version = calculateHash(files["r1"])

\* C24: every frame written to a subscriber either carries a body, empty
\* Parents and no patch operation, or carries patch operations and no
\* body; no written frame has neither a body nor an operation.
C24_BodyOrOperations ==
    \A h \in Conns : \A i \in DOMAIN stream[h] :
        LET f == stream[h][i]
        IN \/ Len(f.body) > 0 /\ f.parents = "" /\ Len(f.ops) = 0
           \/ Len(f.ops) > 0 /\ Len(f.body) = 0

\* C24, amended: every frame written to a subscriber is either a full
\* update, with empty Parents, no patch operation and as body the whole
\* content that its Version is the hash of (no byte when the file is
\* empty), or a patch update with at least one operation, a parent
\* version and no body.
C24_FullOrPatch ==
    \A h \in Conns : \A i \in DOMAIN stream[h] :
        LET f == stream[h][i]
        IN \/ /\ f.kind = "full"
              /\ f.parents = "" /\ Len(f.ops) = 0
              /\ f.body \in Bodies /\ f.version = calculateHash(f.body)
           \/ /\ f.kind = "patch"
              /\ Len(f.ops) > 0 /\ Len(f.body) = 0 /\ f.parents # ""

\* a subscriber received a patch and then the full update of an emptied file
C24_PatchThenEmptyFull ==
    \E h \in Conns :
        /\ Len(stream[h]) = 3
        /\ stream[h][2].kind = "patch"
        /\ stream[h][3].kind = "full"
        /\ stream[h][3].by = "dispatcher"
        /\ stream[h][3].body = <<>>

\* C25: the step that takes a Write event of a .braid file off the watcher
\* either read the file (its content and hash are what is recorded and
\* passed to notifySubscribers) or, when the read failed, drops the event:
\* notifySubscribers is not entered, no frame is written, and the registry
\* and the recorded versions stay as they were.
C25_ReadFailureDropsEvent ==
    [][(/\ dpc = "d_idle"
        /\ events # <<>>
        /\ Qualifies(Head(events))
        /\ events' = Tail(events))
       => \/ /\ dpc' = "d_notify"
             /\ dev' = Head(events)
             /\ dev'.rel \in DOMAIN files
             /\ ddata' = files[dev'.rel]
             /\ versions'[getResourceIDFromPath(dev'.rel)]
                   = calculateHash(files[dev'.rel])
          \/ /\ dpc' = "d_idle"
             /\ UNCHANGED <<subscriptions, versions, hashes, stream,
                            dispVars, crashed>>]_vars

\* the only change event was dropped: a subscriber that was given the old
\* content has received nothing more and the recorded version is the old one
C25_EventDropped ==
    \E h \in Conns :
        /\ evCount = 1 /\ events = <<>> /\ dpc = "d_idle"
        /\ files["r1"] # BodyA1
        /\ hpc[h] = "h_wait" /\ ~broken[h]
        /\ hreq[h].resourceID = "/r1" /\ hreq[h].data = BodyA1
        /\ Len(stream[h]) = 1
        /\ "/r1" \in DOMAIN versions
        /\ versions["/r1"] = calculateHash(BodyA1)
        /\ hreq[h].subID \in DOMAIN Bucket("/r1")
        /\ Bucket("/r1")[hreq[h].subID].LastHash = calculateHash(BodyA1)

\* C26: every entry of the registry belongs to a request that was answered
\* 209 and is put there by the AddSubscription of that request; a request
\* answered 404, 500 or 200, or handed to the proxy, returns without any
\* change to s.subscriptions.
C26_OnlySubscribersRegistered ==
    /\ [](\A r \in Resources : \A k \in DOMAIN Bucket(r) :
             status[Bucket(r)[k].W] = "209")
    /\ [][/\ (\A g \in Conns :
                (status[g] = "" /\
                 status'[g] \in {"404", "500", "200", "proxied"})
                => /\ subscriptions' = subscriptions
                   /\ \A r \in Resources : \A k \in DOMAIN Bucket(r) :
                         Bucket(r)[k].W # g)
           /\ (\A r \in Resources : \A k \in DOMAIN Bucket(r)' :
                k \notin DOMAIN Bucket(r)
                => \E h \in Conns :
                     /\ status[h] = "209"
                     /\ hpc[h] = "h_add_locked" /\ hpc'[h] = "h_send"
                     /\ hreq[h].resourceID = r)]_vars

\* one request was handed to the proxy while another one is a subscriber:
\* the registry holds the subscriber only
C26_ProxiedBesideSubscriber ==
    \E g \in Conns : \E h \in Conns :
        /\ proxyURL /\ status[g] = "proxied" /\ hpc[g] = "h_done"
        /\ status[h] = "209" /\ hpc[h] = "h_wait"
        /\ DOMAIN subscriptions = {hreq[h].resourceID}
        /\ \A k \in DOMAIN Bucket(hreq[h].resourceID) :
              Bucket(hreq[h].resourceID)[k].W = h

\* C27: a failure while one change event is handled does not stop the
\* watcher loop: the write to a sink that fails, and every later step of
\* the pass in which a write failed, leave the process running.
C27_FailureKeepsLoopRunning ==
    [][/\ (/\ dpc = "d_send" /\ dpc' = "d_upd"
           /\ broken[dsub.W]
           /\ sendUpdate(dsub, ddata, calculateHash(ddata)) # <<>>)
          => ~crashed'
       /\ (InRange /\ dfailed # {}) => ~crashed']_vars

C29_PatchesHeaderIffSeveral ==
    \A h \in Conns : \A i \in DOMAIN stream[h] :
        stream[h][i].kind = "patch"
        => LET w == Wire(stream[h][i])
               at(name) == {j \in DOMAIN w : w[j].h = name}
               sections == Cardinality(at("Content-Range"))
           IN /\ w[1].h = "Version" /\ w[2].h = "Parents"
              /\ Cardinality(at("Content-Length")) = sections
              /\ \A j \in at("Content-Range") : w[j - 1].h = "Content-Length"
              /\ sections = Len(stream[h][i].ops)
              /\ (at("Patches") # {}) <=> (sections > 1)
              /\ (at("Patches") # {})
                 => /\ at("Patches") = {3}
                    /\ w[3].v = ToString(sections)
                    /\ \A j \in at("Content-Range") : j > 3
              /\ (sections = 1)
                 => /\ at("Patches") = {}
                    /\ w[3].h = "Content-Length" /\ w[4].h = "Content-Range"

\* a subscriber received a patch of one operation and then a patch of two
C29_OneThenTwoOperations ==
    \E h \in Conns :
        /\ Len(stream[h]) = 3
        /\ stream[h][2].kind = "patch" /\ stream[h][3].kind = "patch"
        /\ \A j \in DOMAIN Wire(stream[h][2]) :
              Wire(stream[h][2])[j].h # "Patches"
        /\ Wire(stream[h][3])[3] = Line("Patches", "2", <<>>)

\* C30: in the bytes of every written patch frame the section of a remove
\* operation has Content-Length 0 and no value byte, and the section of a
\* replace or add operation carries the new JSON fragment.
C30_RemoveCarriesNoValue ==
    \A h \in Conns : \A i \in DOMAIN stream[h] :
        stream[h][i].kind = "patch"
        => LET w == Wire(stream[h][i])
           IN \A j \in DOMAIN w :
                w[j].h = "Content-Range"
                => IF w[j].v = "remove"
                   THEN w[j - 1].v = "0" /\ w[j + 2].b = <<>>
                   ELSE /\ w[j + 2].b # <<>>
                        /\ w[j - 1].v = ToString(Len(w[j + 2].b))

\* C31: the update after a write adds no resource to s.subscriptions and
\* no ID to a bucket; when the ID of the subscriber just written to (or
\* its whole bucket) is no longer in the registry, the update changes
\* nothing and the ID is not in the registry afterwards.
C31_UpdateNeverRecreates ==
    [][(dpc \in {"d_upd", "d_wlocked"} /\ dpc' = "d_iter")
       => LET resourceID == getResourceIDFromPath(dev.rel)
          IN /\ DOMAIN subscriptions' = DOMAIN subscriptions
             /\ \A r \in Resources : DOMAIN Bucket(r)' = DOMAIN Bucket(r)
             /\ dsubID \notin DOMAIN Bucket(resourceID)
                => /\ subscriptions' = subscriptions
                   /\ dsubID \notin DOMAIN Bucket(resourceID)']_vars

\* the update is about to run for a subscriber that was removed after the
\* range produced it, while another subscriber keeps the bucket alive
C31_RemovedBeforeUpdate ==
    /\ dpc = "d_wlocked" /\ ~crashed
    /\ gpc[dsub.W] = "g_done"
    /\ <<dsubID, dsub.W>> \in dsnap
    /\ getResourceIDFromPath(dev.rel) \in DOMAIN subscriptions
    /\ dsubID \notin DOMAIN Bucket(getResourceIDFromPath(dev.rel))

\* C32: once every change event has been dispatched, a subscriber that is
\* in the registry has the hash of the current content of the file as its
\* LastHash; in particular, a subscriber (the only client so far) whose
\* AddSubscription runs when no event is pending or in dispatch, and the
\* watcher has read and recorded the current content, is registered with
\* that hash.
C32_ConvergedWhenQuiet ==
    [][\A h \in Conns :
          LET r == hreq[h].resourceID
          IN (/\ hpc[h] = "h_add_locked" /\ hpc'[h] = "h_send"
              /\ events = <<>> /\ dpc = "d_idle"
              /\ \A g \in Conns \ {h} : hpc[g] = "h_new"
              /\ versions[r]
                   = calculateHash(files[getPathFromResourceID(r)]))
             => Bucket(r)'[hreq'[h].subID].LastHash
                  = calculateHash(files[getPathFromResourceID(r)])]_vars

\* C33: at most one thread is writing to a sink at any time: the handler
\* of a connection is never in its writes of the initial frame (after
\* AddSubscription, before the goroutine is started) while the watcher is
\* in sendFullUpdate or sendPatchUpdate for the same connection.
C33_SingleWriterPerSink ==
    \A h \in Conns :
        ~(/\ hpc[h] = "h_send"
          /\ dpc = "d_send"
          /\ dsub.W = h
          /\ sendUpdate(dsub, ddata, calculateHash(ddata)) # <<>>)

\* C34: every step of a pass of notifySubscribers for a resource leaves
\* alone the streams of the connections that subscribed to another
\* resource and the buckets of the other resources, writes to no
\* connection but the one the range produced, a subscriber of that
\* resource; a pass that finds no subscriber writes nothing and leaves
\* the registry as it is.
C34_PassStaysInItsResource ==
    [][(dpc # "d_idle" /\ dpc' # dpc)
       => LET resourceID == getResourceIDFromPath(dev.rel)
          IN /\ \A g \in Conns :
                  stream'[g] # stream[g]
                  => /\ g = dsub.W
                     /\ hreq[g].resourceID = resourceID
             /\ \A r \in Resources \ {resourceID} : Bucket(r)' = Bucket(r)
             /\ DOMAIN subscriptions' = DOMAIN subscriptions
             /\ (dpc = "d_notify" /\ DOMAIN Bucket(resourceID) = {})
                => /\ dpc' = "d_idle"
                   /\ stream' = stream
                   /\ subscriptions' = subscriptions]_vars

\* a change of r1 reached the subscriber of /r1 and was recorded for it,
\* while the subscriber of /r2 has its initial frame and baseline only
C34_OtherResourceUntouched ==
    \E g \in Conns : \E h \in Conns :
        /\ hreq[g].resourceID = "/r1" /\ hreq[h].resourceID = "/r2"
        /\ hpc[g] = "h_wait" /\ hpc[h] = "h_wait"
        /\ Len(stream[g]) = 2 /\ stream[g][2].by = "dispatcher"
        /\ Len(stream[h]) = 1
        /\ hreq[g].subID # hreq[h].subID
        /\ Bucket("/r1")[hreq[g].subID].LastHash = stream[g][2].version
        /\ Bucket("/r2")[hreq[h].subID].LastHash = hreq[h].hash
        /\ Bucket("/r2")[hreq[h].subID].LastHash # stream[g][2].version

\* C35: for every subscription in the registry, LastHash is the hash of
\* LastResource.
C35_LastHashOfLastResource ==
    \A r \in Resources : \A k \in DOMAIN Bucket(r) :
        /\ Bucket(r)[k].LastResource \in Bodies
        /\ Bucket(r)[k].LastHash = calculateHash(Bucket(r)[k].LastResource)

\* the registry holds a subscription as AddSubscription stored it and one
\* that the update after a write has changed
C35_AddedAndUpdated ==
    \E g \in Conns : \E h \in Conns \ {g} :
        /\ hreq[g].subID # hreq[h].subID
        /\ hreq[g].subID \in DOMAIN Bucket("/r1")
        /\ hreq[h].subID \in DOMAIN Bucket("/r1")
        /\ Bucket("/r1")[hreq[g].subID].LastResource = hreq[g].data
        /\ Bucket("/r1")[hreq[h].subID].LastResource # hreq[h].data
        /\ Bucket("/r1")[hreq[h].subID].W = h

\* C36: for one change event at most one frame is written to a
\* subscriber: the write for the subscriber the range produced is at most
\* one frame, a patch or a full update and never a patch followed by a
\* full update, and no stream holds two frames of the same event.
C36_OneFramePerEvent ==
    /\ dpc = "d_send"
       => Len(sendUpdate(dsub, ddata, calculateHash(ddata))) <= 1
    /\ \A h \in Conns : \A i \in DOMAIN stream[h] : \A j \in DOMAIN stream[h] :
          (/\ i # j
           /\ stream[h][i].by = "dispatcher"
           /\ stream[h][j].by = "dispatcher")
          => stream[h][i].ev # stream[h][j].ev

\* a subscriber received one patch for the first event and, the diff
\* having failed, one full update for the second
C36_PatchThenFallback ==
    \E h \in Conns :
        /\ Len(stream[h]) = 3
        /\ stream[h][2].kind = "patch" /\ stream[h][2].ev = 1
        /\ stream[h][3].kind = "full" /\ stream[h][3].ev = 2
        /\ stream[h][3].body = BodyBad
        /\ dpc = "d_idle"
====
